---- MODULE Spec2Model ----
(***************************************************************************)
(* Civic User Management Service (src/main.py, src/auth_utils.py,          *)
(* src/models/user.py): registration, login, bearer tokens, profile,       *)
(* leaderboard and the internal gamification events, as a state machine.   *)
(*                                                                         *)
(* Every request runs in its own database session (get_db).  A handler is  *)
(* split at its database round trips: what lies between two round trips    *)
(* is local computation of one request and is taken in one step.  The      *)
(* store is the users table; time is the clock in whole seconds, the       *)
(* resolution of the exp claim of a token.                                 *)
(***************************************************************************)
EXTENDS Integers, Sequences, FiniteSets, TLC

VARIABLES
    users,      \* the users table: a sequence of rows, users[i].user_id = i
    pc,         \* per client: where its current request stands
    req,        \* per client: the request it sent
    local,      \* per client: the handler's local variables (ORM row, payload)
    resp,       \* per client: the response it received
    held,       \* per client: the token it received last, and how
    known,      \* per client: the account it registered itself
    now,        \* the clock, in seconds
    awarded,    \* per account: the points the acknowledged events carried
    budget,     \* requests the clients may still send
    nticks      \* clock steps taken

vars == <<users, pc, req, local, resp, held, known, now, awarded, budget, nticks>>

----------------------------------------------------------------------------
(* Bounds of the model *)

MaxRequests == 3
MaxTicks == 3
MaxSeqRequests == 4
MaxLbAccounts == 12
MaxDigestLogins == 2

Procs == {1, 2}
Emails == {"a@x.org", "b@x.org"}
Passwords == {"pw1", "pw2"}
\* The register payloads the clients send: two of them share an email.
RegisterRequests ==
    {[name |-> "Ann", email |-> "a@x.org", password |-> "pw1", role |-> "Citizen"],
     [name |-> "Bob", email |-> "a@x.org", password |-> "pw2", role |-> "Citizen"],
     [name |-> "Bob", email |-> "b@x.org", password |-> "pw1", role |-> "Citizen"]}
Salts == {"s1"}
UnknownEventType == "THIS_IS_NOT_A_VALID_EVENT"

----------------------------------------------------------------------------
(* Program constants *)

POINTS_NEW_REPORT == 10
POINTS_CONFIRM_ISSUE == 5
POINTS_RESOLVED == 20

SECRET_KEY == "super_secret_jwt_key"
ACCESS_TOKEN_EXPIRE_MINUTES == 60 * 24
LeaderboardLimit == 10

EventType == {"new_report", "confirm_issue", "report_resolved"}

\* Python's None: a missing row, a rejected token, no response yet.
None == [none |-> TRUE]

----------------------------------------------------------------------------
(* Credential hasher: src/auth_utils.py *)

\* bcrypt.hash draws a salt and stores it with the digest of (salt, password).
hash_password(password, salt) ==
    [salt |-> salt, digest |-> <<salt, password>>]

\* A stored password_hash that no bcrypt.hash wrote, such as the literal
\* "hashedpassword" of the tests: it has no salt and digest to take apart.
MalformedDigest == [salt |-> "", digest |-> <<"hashedpassword">>]

\* bcrypt.verify parses the stored string first and raises ValueError when it
\* is no bcrypt hash; verify_password has no try around it.
verify_password_raises(hashed_password) ==
    Len(hashed_password.digest) # 2

\* A comparison of the stored digest with the plaintext itself.
verify_password_plain(plain_password, hashed_password) ==
    hashed_password.digest = plain_password

\* bcrypt.verify recomputes the digest with the stored salt and compares.
verify_password(plain_password, hashed_password) ==
    hashed_password.digest = <<hashed_password.salt, plain_password>>

----------------------------------------------------------------------------
(* Token service: src/auth_utils.py *)

\* An expiry of ACCESS_TOKEN_EXPIRE_MINUTES seconds (timedelta(seconds=...)).
create_access_token_seconds(data, t) ==
    [wellformed |-> TRUE,
     key |-> SECRET_KEY,
     claims |-> [user_id |-> data.user_id, email |-> data.email,
                 role |-> data.role,
                 exp |-> t + ACCESS_TOKEN_EXPIRE_MINUTES]]

\* jwt.encode of the claims and exp = now + 24 h, signed with SECRET_KEY.
create_access_token(data, t) ==
    [wellformed |-> TRUE,
     key |-> SECRET_KEY,
     claims |-> [user_id |-> data.user_id, email |-> data.email,
                 role |-> data.role,
                 exp |-> t + ACCESS_TOKEN_EXPIRE_MINUTES * 60]]

\* A decode that does not check exp (options verify_exp off).
decode_access_token_no_exp(token, t) ==
    IF token.wellformed /\ token.key = SECRET_KEY
    THEN token.claims
    ELSE None

\* A decode that does not check the signature (get_unverified_claims).
decode_access_token_unverified(token, t) ==
    IF token.wellformed /\ ~(token.claims.exp < t)
    THEN token.claims
    ELSE None

\* jwt.decode: JWTError (malformed, bad signature, exp < now) gives None.
decode_access_token(token, t) ==
    IF /\ token.wellformed
       /\ token.key = SECRET_KEY
       /\ ~(token.claims.exp < t)
    THEN token.claims
    ELSE None

----------------------------------------------------------------------------
(* The store: src/models/user.py *)

User(user_id, name, email, password_hash, role) ==
    [user_id |-> user_id, name |-> name, email |-> email,
     password_hash |-> password_hash, role |-> role,
     total_points |-> 0, spendable_points |-> 0]

\* db.query(User).filter(User.email == email).first()
FindByEmail(table, email) ==
    IF \E i \in 1..Len(table) : table[i].email = email
    THEN table[CHOOSE i \in 1..Len(table) : table[i].email = email]
    ELSE None

\* The query without its filter: .first() of the whole table.
FindByIdUnfiltered(table, user_id) ==
    IF Len(table) > 0 THEN table[1] ELSE None

\* db.query(User).filter(User.user_id == user_id).first()
FindById(table, user_id) ==
    IF user_id \in 1..Len(table) THEN table[user_id] ELSE None

\* A column without unique=True: no INSERT is refused.
NoUniqueIndex(table, email) ==
    FALSE

\* email = Column(String(255), unique=True): the INSERT that would give two
\* rows one email raises IntegrityError.
UniqueViolation(table, email) ==
    \E i \in 1..Len(table) : table[i].email = email

----------------------------------------------------------------------------
(* Responses *)

HTTPException(status_code, detail) ==
    [status |-> status_code, detail |-> detail]

\* An exception no handler catches: Starlette answers 500.
InternalServerError == [status |-> 500, detail |-> "Internal Server Error"]

\* Pydantic rejected the request body.
ValidationError == [status |-> 422, detail |-> "validation error"]

AuthResponse(status_code, user, token) ==
    [status |-> status_code, user_id |-> user.user_id, name |-> user.name,
     email |-> user.email, role |-> user.role, token |-> token]

ProfileResponse(user) ==
    [status |-> 200, user_id |-> user.user_id, name |-> user.name,
     email |-> user.email, total_points |-> user.total_points,
     spendable_points |-> user.spendable_points]

----------------------------------------------------------------------------
(* Clients *)

\* What a client keeps of its last register or login response: the token,
\* the credentials it sent, the identity the response named and its time.
NoToken ==
    [token |-> None, via |-> "none", password |-> "", iat |-> 0, claims |-> None]

Received(token, via, password, user, t) ==
    [token |-> token, via |-> via, password |-> password, iat |-> t,
     claims |-> [user_id |-> user.user_id, email |-> user.email,
                 role |-> user.role]]

NoRequest == [op |-> "none"]

Ready(p) == pc[p] \in {"idle", "done"}

Begin(p, r) ==
    /\ Ready(p)
    /\ budget > 0
    /\ budget' = budget - 1
    /\ req' = [req EXCEPT ![p] = r]

Finish(p, response) ==
    /\ pc' = [pc EXCEPT ![p] = "done"]
    /\ resp' = [resp EXCEPT ![p] = response]

Init ==
    /\ users = <<>>
    /\ pc = [p \in Procs |-> "idle"]
    /\ req = [p \in Procs |-> NoRequest]
    /\ local = [p \in Procs |-> None]
    /\ resp = [p \in Procs |-> None]
    /\ held = [p \in Procs |-> NoToken]
    /\ known = [p \in Procs |-> None]
    /\ now = 0
    /\ awarded = <<>>
    /\ budget = MaxRequests
    /\ nticks = 0

----------------------------------------------------------------------------
(* POST /api/v1/register: src/main.py register_user *)

\* The request arrives and the handler looks the email up.
RegisterCheck(p) ==
    \E payload \in RegisterRequests :
        /\ Begin(p, [op |-> "register", name |-> payload.name,
                     email |-> payload.email, password |-> payload.password,
                     role |-> payload.role])
        /\ LET existing_user == FindByEmail(users, payload.email) IN
           /\ local' = [local EXCEPT ![p] = existing_user]
           /\ IF existing_user # None
              THEN Finish(p, HTTPException(400, "Email already registered"))
              ELSE /\ pc' = [pc EXCEPT ![p] = "reg_insert"]
                   /\ resp' = [resp EXCEPT ![p] = None]
        /\ UNCHANGED <<users, held, known, now, awarded, nticks>>

\* hash_password, db.add, db.commit, db.refresh, create_access_token.  The
\* commit is the INSERT: the unique index on email decides it, and the
\* IntegrityError it raises is caught nowhere.  The primary key is the next
\* integer.  The refresh reads back the row just inserted, whose identity
\* fields never change.
RegisterInsert(p) ==
    /\ pc[p] = "reg_insert"
    /\ \E salt \in Salts :
        LET hashed_pw == hash_password(req[p].password, salt)
            new_user == User(Len(users) + 1, req[p].name, req[p].email,
                             hashed_pw, req[p].role)
            token == create_access_token(new_user, now)
        IN  IF UniqueViolation(users, req[p].email)
            THEN /\ Finish(p, InternalServerError)
                 /\ UNCHANGED <<users, awarded, held, known, local>>
            ELSE /\ users' = Append(users, new_user)
                 /\ awarded' = Append(awarded, 0)
                 /\ local' = [local EXCEPT ![p] = new_user]
                 /\ held' = [held EXCEPT ![p] =
                        Received(token, "register", req[p].password,
                                 new_user, now)]
                 /\ known' = [known EXCEPT ![p] =
                        [user_id |-> new_user.user_id, name |-> new_user.name,
                         email |-> new_user.email,
                         password |-> req[p].password]]
                 /\ Finish(p, AuthResponse(201, new_user, token))
    /\ UNCHANGED <<req, now, budget, nticks>>

----------------------------------------------------------------------------
(* POST /api/v1/login: src/main.py login_user *)

\* A login that names the missing cause: "no such email" apart from "wrong
\* password".
LoginFailureNamingCause(user) ==
    IF user = None
    THEN HTTPException(404, "User not found")
    ELSE HTTPException(401, "Invalid credentials")

\* if not user or not verify_password(...): raise HTTPException(401, ...)
LoginFailure(user) ==
    HTTPException(401, "Invalid credentials")

LoginUser(p) ==
    \E email \in Emails, password \in Passwords :
        /\ Begin(p, [op |-> "login", email |-> email, password |-> password])
        /\ LET user == FindByEmail(users, email) IN
           /\ local' = [local EXCEPT ![p] = user]
           /\ IF user # None /\ verify_password_raises(user.password_hash)
              THEN /\ Finish(p, InternalServerError)
                   /\ UNCHANGED held
              ELSE IF user = None
                      \/ ~verify_password(password, user.password_hash)
              THEN /\ Finish(p, LoginFailure(user))
                   /\ UNCHANGED held
              ELSE LET token == create_access_token(user, now) IN
                   /\ Finish(p, AuthResponse(200, user, token))
                   /\ held' = [held EXCEPT ![p] =
                          Received(token, "login", password, user, now)]
        /\ UNCHANGED <<users, known, now, awarded, nticks>>

----------------------------------------------------------------------------
(* GET /api/v1/profile/me: src/main.py get_current_user, get_profile *)

\* "invalidtoken": not a JWT at all.
InvalidToken == [wellformed |-> FALSE, key |-> "", claims |-> None]

\* A JWT signed with a key that is not SECRET_KEY.
ForgedToken ==
    [wellformed |-> TRUE, key |-> "attacker_key",
     claims |-> [user_id |-> 1, email |-> "a@x.org", role |-> "Citizen",
                 exp |-> (MaxTicks + 1) * ACCESS_TOKEN_EXPIRE_MINUTES * 60]]

\* A JWT signed with SECRET_KEY (the key is a literal of the source) whose
\* subject is no row of this store.
StrayToken ==
    [wellformed |-> TRUE, key |-> SECRET_KEY,
     claims |-> [user_id |-> 999, email |-> "gone@x.org", role |-> "Citizen",
                 exp |-> (MaxTicks + 1) * ACCESS_TOKEN_EXPIRE_MINUTES * 60]]

TokensOffered(p) ==
    (IF held[p].token # None THEN {held[p].token} ELSE {})
        \cup {InvalidToken, ForgedToken, StrayToken}

\* The request arrives and the dependency decodes the bearer token.
GetCurrentUserDecode(p) ==
    \E token \in TokensOffered(p) :
        /\ Begin(p, [op |-> "profile", token |-> token])
        /\ LET payload == decode_access_token(token, now) IN
           /\ local' = [local EXCEPT ![p] = [payload |-> payload, user |-> None]]
           /\ IF payload = None
              THEN Finish(p, HTTPException(401, "Invalid or expired token"))
              ELSE /\ pc' = [pc EXCEPT ![p] = "gcu_lookup"]
                   /\ resp' = [resp EXCEPT ![p] = None]
        /\ UNCHANGED <<users, held, known, now, awarded, nticks>>

\* The lookup by the subject id, then get_profile's response.
GetCurrentUserLookup(p) ==
    /\ pc[p] = "gcu_lookup"
    /\ LET user == FindById(users, local[p].payload.user_id) IN
       /\ local' = [local EXCEPT ![p].user = user]
       /\ IF user = None
          THEN Finish(p, HTTPException(401, "User not found"))
          ELSE Finish(p, ProfileResponse(user))
    /\ UNCHANGED <<users, req, held, known, now, awarded, budget, nticks>>

----------------------------------------------------------------------------
(* GET /api/v1/leaderboard: src/main.py get_leaderboard *)

\* .order_by(User.total_points.desc()): every order of the rows `ids` of the
\* table by descending total_points; rows of equal total_points come in an
\* order the store chooses.
RECURSIVE OrderByTotalPointsDesc(_, _)
OrderByTotalPointsDesc(table, ids) ==
    IF ids = {}
    THEN {<<>>}
    ELSE LET top == {i \in ids : \A j \in ids :
                        table[j].total_points <= table[i].total_points}
         IN  UNION {{<<table[i]>> \o rest :
                        rest \in OrderByTotalPointsDesc(table, ids \ {i})} :
                    i \in top}

\* A limit that is one too large.
LimitOffByOne(rows, n) ==
    SubSeq(rows, 1, IF Len(rows) < n + 1 THEN Len(rows) ELSE n + 1)

\* .limit(n)
Limit(rows, n) ==
    SubSeq(rows, 1, IF Len(rows) < n THEN Len(rows) ELSE n)

LeaderboardResponse(rows) ==
    [status |-> 200,
     leaderboard |-> [idx \in 1..Len(rows) |->
                        [rank |-> idx, name |-> rows[idx].name,
                         total_points |-> rows[idx].total_points]]]

GetLeaderboard(p) ==
    /\ Begin(p, [op |-> "leaderboard"])
    /\ \E rows \in OrderByTotalPointsDesc(users, 1..Len(users)) :
        /\ local' = [local EXCEPT ![p] = Limit(rows, LeaderboardLimit)]
        /\ Finish(p, LeaderboardResponse(Limit(rows, LeaderboardLimit)))
    /\ UNCHANGED <<users, held, known, now, awarded, nticks>>

----------------------------------------------------------------------------
(* POST /internal/events: src/main.py process_gamification_event *)

\* The account ids the event source names: the last one is no account.
EventUserIds == {1, 2, 999}

\* A schema with event_type: str, which accepts every kind.
InternalEventRequestAnyString(body) ==
    TRUE

\* InternalEventRequest: event_type is an EventType, or the body is rejected
\* with 422 before the handler runs.
InternalEventRequest(body) ==
    body.event_type \in EventType

\* The if/elif chain of the handler; None is its else branch.
PointsAwarded(event_type) ==
    CASE event_type = "new_report" -> POINTS_NEW_REPORT
      [] event_type = "confirm_issue" -> POINTS_CONFIRM_ISSUE
      [] event_type = "report_resolved" -> POINTS_RESOLVED
      [] OTHER -> 0

KnownEventType(event_type) ==
    event_type \in {"new_report", "confirm_issue", "report_resolved"}

InternalEventResponse(user_id, points_added, new_total) ==
    [status |-> 200, message |-> "Event processed successfully",
     user_id |-> user_id, points_added |-> points_added,
     new_total |-> new_total]

\* The request arrives, is validated, and the handler loads the row.
ProcessEventFind(p) ==
    \E user_id \in EventUserIds, event_type \in EventType \cup {UnknownEventType} :
        LET body == [op |-> "event", user_id |-> user_id,
                     event_type |-> event_type]
            user == FindById(users, user_id)
        IN  /\ Begin(p, body)
            /\ IF ~InternalEventRequest(body)
               THEN /\ Finish(p, ValidationError)
                    /\ local' = [local EXCEPT ![p] = None]
               ELSE IF user = None
               THEN /\ Finish(p, HTTPException(404, "User not found"))
                    /\ local' = [local EXCEPT ![p] = None]
               ELSE IF ~KnownEventType(event_type)
               THEN /\ Finish(p, [status |-> 200, message |->
                            "Unknown event type, no points awarded."])
                    /\ local' = [local EXCEPT ![p] = None]
               ELSE /\ pc' = [pc EXCEPT ![p] = "ev_commit"]
                    /\ resp' = [resp EXCEPT ![p] = None]
                    /\ local' = [local EXCEPT ![p] =
                            [user |-> user,
                             points_awarded |-> PointsAwarded(event_type)]]
            /\ UNCHANGED <<users, held, known, now, awarded, nticks>>

\* The update that forgets the second counter.
CommitTotalPointsOnly(table, user, points_awarded) ==
    [table EXCEPT ![user.user_id] =
        [@ EXCEPT !.total_points = user.total_points + points_awarded]]

\* An update that adds to spendable_points in the store (an SQL expression)
\* and still writes total_points from the row as loaded.
CommitSpendableInStore(table, user, points_awarded) ==
    [table EXCEPT ![user.user_id] =
        [@ EXCEPT !.total_points = user.total_points + points_awarded,
                  !.spendable_points = @ + points_awarded]]

\* user.total_points += points_awarded; user.spendable_points += ...;
\* db.commit(): one UPDATE that writes the two sums computed from the row as
\* this session loaded it.
CommitPoints(table, user, points_awarded) ==
    [table EXCEPT ![user.user_id] =
        [@ EXCEPT !.total_points = user.total_points + points_awarded,
                  !.spendable_points = user.spendable_points + points_awarded]]

ProcessEventCommit(p) ==
    /\ pc[p] = "ev_commit"
    /\ users' = CommitPoints(users, local[p].user, local[p].points_awarded)
    /\ pc' = [pc EXCEPT ![p] = "ev_refresh"]
    /\ UNCHANGED <<req, local, resp, held, known, now, awarded, budget, nticks>>

\* db.refresh(user) reads the row again; the response carries what it read.
ProcessEventRefresh(p) ==
    /\ pc[p] = "ev_refresh"
    /\ LET user == FindById(users, req[p].user_id) IN
       /\ local' = [local EXCEPT ![p].user = user]
       /\ Finish(p, InternalEventResponse(user.user_id,
                        local[p].points_awarded, user.total_points))
       /\ awarded' = [awarded EXCEPT ![user.user_id] =
                        @ + local[p].points_awarded]
    /\ UNCHANGED <<users, req, held, known, now, budget, nticks>>

----------------------------------------------------------------------------
(* The clock *)

\* Time passes between any two steps.  The instants the clock shows are
\* 0, 1, 24 h, 24 h + 1, 48 h, ...: for a token issued at 0 or at 1 these lie
\* before, at and one second after its expiry.
Tick ==
    /\ nticks < MaxTicks
    /\ nticks' = nticks + 1
    /\ now' = IF nticks % 2 = 0
              THEN now + 1
              ELSE now + ACCESS_TOKEN_EXPIRE_MINUTES * 60 - 1
    /\ UNCHANGED <<users, pc, req, local, resp, held, known, awarded, budget>>

Next ==
    \/ \E p \in Procs : RegisterCheck(p)
    \/ \E p \in Procs : RegisterInsert(p)
    \/ \E p \in Procs : LoginUser(p)
    \/ \E p \in Procs : GetCurrentUserDecode(p)
    \/ \E p \in Procs : GetCurrentUserLookup(p)
    \/ \E p \in Procs : GetLeaderboard(p)
    \/ \E p \in Procs : ProcessEventFind(p)
    \/ \E p \in Procs : ProcessEventCommit(p)
    \/ \E p \in Procs : ProcessEventRefresh(p)
    \/ Tick

Spec == Init /\ [][Next]_vars

----------------------------------------------------------------------------
(* The ledger with no two requests in flight at once: registrations and    *)
(* events, each sent only when every other client has its response.        *)

Alone(p) == \A q \in Procs \ {p} : Ready(q)

SeqInit ==
    /\ users = <<>>
    /\ pc = [p \in Procs |-> "idle"]
    /\ req = [p \in Procs |-> NoRequest]
    /\ local = [p \in Procs |-> None]
    /\ resp = [p \in Procs |-> None]
    /\ held = [p \in Procs |-> NoToken]
    /\ known = [p \in Procs |-> None]
    /\ now = 0
    /\ awarded = <<>>
    /\ budget = MaxSeqRequests
    /\ nticks = 0

SeqNext ==
    \/ \E p \in Procs : Alone(p) /\ RegisterCheck(p)
    \/ \E p \in Procs : Alone(p) /\ RegisterInsert(p)
    \/ \E p \in Procs : Alone(p) /\ ProcessEventFind(p)
    \/ \E p \in Procs : Alone(p) /\ ProcessEventCommit(p)
    \/ \E p \in Procs : Alone(p) /\ ProcessEventRefresh(p)

SeqSpec == SeqInit /\ [][SeqNext]_vars

----------------------------------------------------------------------------
(* The leaderboard over a populated store: LbSize accounts, numbered in the *)
(* order they registered, whose total_points are pairwise distinct         *)
(* multiples of the smallest award, in an order set by stride and offset.  *)

SeededUser(i, stride, offset) ==
    [user_id |-> i, name |-> "user" \o ToString(i),
     email |-> "user" \o ToString(i) \o "@x.org",
     password_hash |-> hash_password("pw1", "s1"), role |-> "Citizen",
     total_points |-> POINTS_CONFIRM_ISSUE * ((stride * i + offset) % 17),
     spendable_points |-> POINTS_CONFIRM_ISSUE * ((stride * i + offset) % 17)]

LbInit ==
    /\ \E size \in 0..MaxLbAccounts, stride \in {1, 3, 5, 16}, offset \in 0..16 :
        /\ users = [i \in 1..size |-> SeededUser(i, stride, offset)]
        /\ awarded = [i \in 1..size |-> users[i].total_points]
    /\ pc = [p \in Procs |-> "idle"]
    /\ req = [p \in Procs |-> NoRequest]
    /\ local = [p \in Procs |-> None]
    /\ resp = [p \in Procs |-> None]
    /\ held = [p \in Procs |-> NoToken]
    /\ known = [p \in Procs |-> None]
    /\ now = 0
    /\ budget = 1
    /\ nticks = 0

LbNext == \E p \in Procs : GetLeaderboard(p)

LbSpec == LbInit /\ [][LbNext]_vars

----------------------------------------------------------------------------
(* Logins over a store whose rows were written past the service, as the     *)
(* tests write them: each row's password_hash is a digest of hash_password *)
(* or a string that is no digest at all.                                   *)

StoredDigests ==
    {hash_password(password, salt) : password \in Passwords, salt \in Salts}
        \cup {MalformedDigest}

DigestInit ==
    /\ \E d1 \in StoredDigests, d2 \in StoredDigests, size \in 1..2 :
        users = [i \in 1..size |->
                    User(i, IF i = 1 THEN "Ann" ELSE "Bob",
                         IF i = 1 THEN "a@x.org" ELSE "b@x.org",
                         IF i = 1 THEN d1 ELSE d2, "Citizen")]
    /\ awarded = [i \in 1..Len(users) |-> 0]
    /\ pc = [p \in Procs |-> "idle"]
    /\ req = [p \in Procs |-> NoRequest]
    /\ local = [p \in Procs |-> None]
    /\ resp = [p \in Procs |-> None]
    /\ held = [p \in Procs |-> NoToken]
    /\ known = [p \in Procs |-> None]
    /\ now = 0
    /\ budget = MaxDigestLogins
    /\ nticks = 0

DigestNext == \E p \in Procs : LoginUser(p)

DigestSpec == DigestInit /\ [][DigestNext]_vars

----------------------------------------------------------------------------
(* Properties *)

Done(p, op) == pc[p] = "done" /\ req[p].op = op

EventInFlight == \E p \in Procs : pc[p] \in {"ev_commit", "ev_refresh"}

\* C1: of two register requests with one email, under every interleaving, the
\* one that does not create the account ends with 400 'Email already
\* registered' and with no other outcome.
C1_RegisterRaceEndsInDuplicateEmail ==
    \A p \in Procs :
        Done(p, "register") =>
            \/ resp[p].status = 201
            \/ resp[p] = HTTPException(400, "Email already registered")

\* C2: no update is lost: once every event request has its response, each
\* account's total_points and spendable_points equal the sum of the points of
\* the events that were answered with success (accounts start at 0).
C2_NoLostUpdate ==
    ~EventInFlight =>
        \A i \in 1..Len(users) :
            /\ users[i].total_points = awarded[i]
            /\ users[i].spendable_points = awarded[i]

\* The point value of each recognized kind, as the specification's table
\* gives it.
TableValue(event_type) ==
    CASE event_type = "new_report" -> 10
      [] event_type = "confirm_issue" -> 5
      [] event_type = "report_resolved" -> 20

\* C3: with one request at a time, an event of a recognized kind on an
\* existing account adds exactly the table value to total_points and to
\* spendable_points, answers points_added = that value and new_total = the
\* previous total_points plus that value; so every account's two counters
\* equal the sum of the values of its events (10, 5, 20 from (0,0): (35,35)).
C3_CommitStep ==
    \A p \in Procs :
        (pc[p] = "ev_commit" /\ pc'[p] = "ev_refresh") =>
            LET u == req[p].user_id
                v == TableValue(req[p].event_type)
            IN  /\ users[u].total_points = local[p].user.total_points
                /\ users'[u].total_points = users[u].total_points + v
                /\ users'[u].spendable_points = users[u].spendable_points + v
                /\ \A i \in 1..Len(users) : i # u => users'[i] = users[i]

C3_ResponseStep ==
    \A p \in Procs :
        (pc[p] = "ev_refresh" /\ pc'[p] = "done") =>
            LET v == TableValue(req[p].event_type)
            IN  /\ resp'[p].status = 200
                /\ resp'[p].points_added = v
                /\ resp'[p].new_total = local[p].user.total_points + v
                /\ resp'[p].user_id = req[p].user_id

C3_EventAddsTableValue ==
    /\ [](~EventInFlight =>
            \A i \in 1..Len(users) :
                /\ users[i].total_points = awarded[i]
                /\ users[i].spendable_points = awarded[i])
    /\ [][C3_CommitStep /\ C3_ResponseStep]_vars

\* C3 witness: an account that received events of 10, 5 and 20 stands at
\* (35, 35), and the last response reports new_total 35.
C3_Witness ==
    \E p \in Procs :
        /\ Done(p, "event") /\ resp[p].status = 200
        /\ resp[p].new_total = 35
        /\ users[req[p].user_id].total_points = 35
        /\ users[req[p].user_id].spendable_points = 35
        /\ budget = 0

\* A client received the response of an event request in this step.
EventAnswered(p) ==
    /\ Ready(p)
    /\ budget' = budget - 1
    /\ req'[p].op = "event"
    /\ pc'[p] = "done"
    /\ \A q \in Procs \ {p} :
            pc'[q] = pc[q] /\ req'[q] = req[q] /\ resp'[q] = resp[q]

\* C4: an event for an account id that is not in the store is answered with
\* 404 'User not found' and leaves the store as it was: no row is added and
\* no row's points change.
C4_UnknownAccountNoEffect ==
    [][\A p \in Procs :
          /\ (/\ Ready(p) /\ budget' = budget - 1
              /\ req'[p].op = "event"
              /\ req'[p].event_type \in {"new_report", "confirm_issue",
                                          "report_resolved"}
              /\ ~(req'[p].user_id \in 1..Len(users))
              /\ \A q \in Procs \ {p} :
                    pc'[q] = pc[q] /\ req'[q] = req[q] /\ resp'[q] = resp[q])
             => /\ pc'[p] = "done"
                /\ resp'[p] = [status |-> 404, detail |-> "User not found"]
                /\ users' = users
          /\ (EventAnswered(p) /\ resp'[p].status = 404) => users' = users
      ]_vars

\* C4 witness: an event for account 999 was answered 404 while the store
\* holds accounts with points.
C4_Witness ==
    \E p \in Procs :
        /\ Done(p, "event") /\ resp[p].status = 404
        /\ req[p].user_id = 999
        /\ Len(users) > 0 /\ users[1].total_points > 0

\* C5: a login whose email has no account and a login whose email has one but
\* whose password is wrong get the same response, 401 'Invalid credentials'.
C5_LoginFailuresIndistinguishable ==
    \A p \in Procs :
        (/\ Done(p, "login")
         /\ \/ local[p] = None
            \/ local[p].password_hash #
                    hash_password(req[p].password, local[p].password_hash.salt))
        => resp[p] = [status |-> 401, detail |-> "Invalid credentials"]

\* C5 witness: one client failed on an email with no account, the other on a
\* wrong password for an existing one, and their responses are equal.
C5_Witness ==
    \E p, q \in Procs :
        /\ Done(p, "login") /\ local[p] = None
        /\ Done(q, "login") /\ local[q] # None /\ resp[q].status = 401
        /\ resp[p] = resp[q]

\* The token verifies at time t: a JWT, signed with the service's key, whose
\* exp is not in the past.
Verifies(token, t) ==
    /\ token.wellformed
    /\ token.key = "super_secret_jwt_key"
    /\ token.claims.exp >= t

\* Client p logged in with the credentials of the account it registered and
\* holds the token of that login.
LoggedInAsRegistered(p) ==
    /\ known[p] # None
    /\ held[p].via = "login"
    /\ held[p].claims.email = known[p].email
    /\ held[p].password = known[p].password

\* C6: after a client registered (name, email, password), its login with the
\* same email and password succeeds and names that account, and the token of
\* that login, presented before its expiry, resolves to the same account
\* (same id, name and email).
C6_RegisterLoginResolves ==
    \A p \in Procs :
        /\ (/\ Done(p, "login") /\ known[p] # None
            /\ req[p].email = known[p].email
            /\ req[p].password = known[p].password)
           => /\ resp[p].status = 200
              /\ resp[p].user_id = known[p].user_id
              /\ resp[p].name = known[p].name
              /\ resp[p].email = known[p].email
              /\ held[p].token = resp[p].token
              /\ held[p].token.claims.user_id = known[p].user_id
        /\ (/\ LoggedInAsRegistered(p)
            /\ Done(p, "profile") /\ req[p].token = held[p].token)
           => \/ /\ resp[p].status = 200
                 /\ resp[p].user_id = known[p].user_id
                 /\ resp[p].name = known[p].name
                 /\ resp[p].email = known[p].email
              \/ /\ resp[p] = [status |-> 401,
                                detail |-> "Invalid or expired token"]
                 /\ held[p].token.claims.exp < now

\* C6 witness: register, login with the same credentials, then the profile
\* with the login's token answered with the registered account.
C6_Witness ==
    \E p \in Procs :
        /\ LoggedInAsRegistered(p)
        /\ Done(p, "profile") /\ req[p].token = held[p].token
        /\ resp[p].status = 200
        /\ resp[p].user_id = known[p].user_id

\* C7: a token issued at time t for claims {user_id, email, role} decodes, at
\* every time before t + 24 h, to claims with that user_id, email and role,
\* and decodes to None at every time after t + 24 h: a hard cutoff.
C7_TokenRoundTripUntilExpiry ==
    \A p \in Procs :
        held[p].via # "none" =>
            LET payload == decode_access_token(held[p].token, now)
                expiry == held[p].iat + 24 * 60 * 60
            IN  /\ now < expiry =>
                    /\ payload # None
                    /\ [user_id |-> payload.user_id, email |-> payload.email,
                        role |-> payload.role] = held[p].claims
                /\ now > expiry => payload = None

\* C7 witness: one second after the expiry of one client's token, which no
\* longer decodes, while the other client's younger token still does.
C7_Witness ==
    \E p, q \in Procs :
        /\ held[p].via # "none" /\ now = held[p].iat + 24 * 60 * 60 + 1
        /\ decode_access_token(held[p].token, now) = None
        /\ held[q].via # "none" /\ now < held[q].iat + 24 * 60 * 60
        /\ decode_access_token(held[q].token, now) # None

\* C8: get_current_user ends in exactly one of three ways: 401 'Invalid or
\* expired token' when the token does not verify, and then the lookup was
\* never made; 401 'User not found' when it verified and the lookup found no
\* account; the account whose id is the token's subject otherwise.  The
\* lookup is only reached with a verified token.
C8_GuardTerminalStates ==
    \A p \in Procs :
        /\ pc[p] = "gcu_lookup" =>
                /\ req[p].token.wellformed
                /\ req[p].token.key = "super_secret_jwt_key"
                /\ local[p].payload = req[p].token.claims
        /\ Done(p, "profile") =>
            \/ /\ resp[p] = [status |-> 401,
                              detail |-> "Invalid or expired token"]
               /\ ~Verifies(req[p].token, now)
               /\ local[p].payload = None /\ local[p].user = None
            \/ /\ resp[p] = [status |-> 401, detail |-> "User not found"]
               /\ req[p].token.wellformed
               /\ req[p].token.key = "super_secret_jwt_key"
               /\ local[p].payload = req[p].token.claims
               /\ local[p].user = None
            \/ /\ resp[p].status = 200
               /\ req[p].token.wellformed
               /\ req[p].token.key = "super_secret_jwt_key"
               /\ local[p].payload = req[p].token.claims
               /\ local[p].user # None
               /\ resp[p].user_id = req[p].token.claims.user_id
               /\ resp[p].user_id \in 1..Len(users)
               /\ resp[p].email = users[resp[p].user_id].email

\* C8 witness: the three terminal states, among them 'User not found' for a
\* verified token whose subject is no account.
C8_Witness ==
    \E p, q \in Procs :
        /\ Done(p, "profile")
        /\ resp[p] = [status |-> 401, detail |-> "User not found"]
        /\ Done(q, "profile") /\ resp[q].status = 200

\* The accounts of the store that fewer than k accounts outrank.
TopAccounts(k) ==
    {i \in 1..Len(users) :
        Cardinality({j \in 1..Len(users) :
            users[j].total_points > users[i].total_points}) < k}

\* C9: over a store of N accounts with pairwise distinct total_points the
\* leaderboard has min(N, 10) entries, ranked 1, 2, ... in strictly
\* descending total_points, and they are exactly the accounts with the
\* highest total_points: no account outside the top 10 appears.
C9_LeaderboardTopTen ==
    \A p \in Procs :
        (/\ Done(p, "leaderboard")
         /\ \A i, j \in 1..Len(users) :
                i # j => users[i].total_points # users[j].total_points)
        => LET lb == resp[p].leaderboard
               k == IF Len(users) < 10 THEN Len(users) ELSE 10
           IN  /\ resp[p].status = 200
               /\ Len(lb) = k
               /\ \A r \in 1..k : lb[r].rank = r
               /\ \A r \in 1..(k - 1) :
                        lb[r].total_points > lb[r + 1].total_points
               /\ {<<lb[r].name, lb[r].total_points>> : r \in 1..k}
                    = {<<users[i].name, users[i].total_points>> :
                            i \in TopAccounts(10)}

\* C9 witness: a leaderboard of 10 entries over a store of more than 10
\* accounts.
C9_Witness ==
    \E p \in Procs :
        /\ Done(p, "leaderboard")
        /\ Len(users) > 10
        /\ Len(resp[p].leaderboard) = 10

\* C10: an event whose kind is outside {new_report, confirm_issue,
\* report_resolved} is answered 422 before the handler runs, whether or not
\* the account exists: it never reaches the update, and no response is the
\* 200 'no points awarded' no-op.
C10_UnknownKindRejectedAtBoundary ==
    \A p \in Procs :
        /\ (/\ req[p].op = "event"
            /\ ~(req[p].event_type \in {"new_report", "confirm_issue",
                                         "report_resolved"}))
           => /\ pc[p] = "done"
              /\ resp[p].status = 422
        /\ (pc[p] = "done" /\ resp[p].status = 200 /\ req[p].op = "event")
           => resp[p].message = "Event processed successfully"

\* C10 witness: unknown kinds were rejected both for an account that exists
\* and for one that does not.
C10_Witness ==
    \E p, q \in Procs :
        /\ Done(p, "event") /\ resp[p].status = 422
        /\ req[p].user_id \in 1..Len(users)
        /\ Done(q, "event") /\ resp[q].status = 422
        /\ ~(req[q].user_id \in 1..Len(users))

\* C11: verification fails closed on a malformed stored digest: a login for
\* an account whose password_hash is no well-formed digest ends, for every
\* password, with 401 'Invalid credentials' and never with an unhandled
\* error.
C11_MalformedDigestFailsClosed ==
    \A p \in Procs :
        (/\ Done(p, "login")
         /\ local[p] # None
         /\ local[p].password_hash = MalformedDigest)
        => resp[p] = [status |-> 401, detail |-> "Invalid credentials"]

C13_EmailsUnique ==
    \A i, j \in 1..Len(users) :
        i # j => users[i].email # users[j].email

\* C13 witness: two registers with one email both passed the check, one
\* created the account, the other's insert was refused, and the store holds
\* that email once.
C13_Witness ==
    \E p, q \in Procs :
        /\ p # q
        /\ Done(p, "register") /\ Done(q, "register")
        /\ req[p].email = req[q].email
        /\ resp[p].status = 201
        /\ local[q] = None /\ resp[q].status = 500
        /\ Cardinality({i \in 1..Len(users) :
                            users[i].email = req[p].email}) = 1

\* C14: total_points equals spendable_points for every account in every
\* reachable state: both start at 0 and every event writes both from the same
\* loaded row in one commit, also in an interleaving that loses an update.
C14_TotalEqualsSpendable ==
    \A i \in 1..Len(users) :
        users[i].total_points = users[i].spendable_points

\* C14 witness: an update was lost (the account holds fewer points than the
\* answered events carried) and the two counters still agree.
C14_Witness ==
    /\ ~EventInFlight
    /\ \E i \in 1..Len(users) :
        /\ users[i].total_points > 0
        /\ users[i].total_points < awarded[i]
        /\ users[i].total_points = users[i].spendable_points

\* C15: no request deletes an account or changes its id, so the subject of a
\* token that register or login issued stays in the store, and
\* get_current_user with that token, at every moment up to its expiry and
\* whatever ran in between, answers with that same account: the only
\* rejection is 'Invalid or expired token' after t + 24 h, never 'User not
\* found'.
C15_IssuedTokenResolves ==
    \A p \in Procs :
        held[p].via # "none" =>
            LET sub == held[p].claims.user_id IN
            /\ sub \in 1..Len(users)
            /\ users[sub].user_id = sub
            /\ users[sub].email = held[p].claims.email
            /\ (Done(p, "profile") /\ req[p].token = held[p].token) =>
                \/ /\ resp[p].status = 200
                   /\ resp[p].user_id = sub
                   /\ resp[p].email = held[p].claims.email
                \/ /\ resp[p] = [status |-> 401,
                                  detail |-> "Invalid or expired token"]
                   /\ now > held[p].iat + 24 * 60 * 60

\* C15 witness: a token issued by register, presented after time passed and
\* after another account registered, resolved to its account.
C15_Witness ==
    \E p \in Procs :
        /\ held[p].via = "register"
        /\ Done(p, "profile") /\ req[p].token = held[p].token
        /\ resp[p].status = 200
        /\ resp[p].user_id = held[p].claims.user_id
        /\ now > held[p].iat
        /\ Len(users) = 2

====
